---- MODULE Spec2Model ----
(***************************************************************************)
(* Ortswetter.py: Open-Meteo weather overview.                             *)
(*                                                                         *)
(* main() selects a location, geocodes it, fetches hourly and daily        *)
(* weather, aggregates the hourly frame per day with pandas                *)
(* resample("1D") and plots three panels, the third one with two shaded    *)
(* wind bands.                                                             *)
(*                                                                         *)
(* Numbers are fixed-point: temperatures, precipitation and wind speeds    *)
(* are tenths of their unit (39.0 km/h is 390), timestamps are whole hours *)
(* of naive local time counted from a local midnight.  A data frame is a   *)
(* record [columns, rows]; a cell of a column the frame does not have is   *)
(* NaN.  Cells are floats: a null of the JSON response is NaN.             *)
(***************************************************************************)
EXTENDS Integers, Sequences, FiniteSets, TLC

VARIABLES pc, ort, land, loc, df_hourly, df_daily_wind, daily_temp_dew,
          daily_precip, strong_fill, storm_fill, raised, shown, fetched

vars == <<pc, ort, land, loc, df_hourly, df_daily_wind, daily_temp_dew,
          daily_precip, strong_fill, storm_fill, raised, shown, fetched>>

(***************************************************************************)
(* Bounds of the model.                                                    *)
(***************************************************************************)
\* most hourly records of a generated hourly frame
MaxLen == 2
\* the generated timestamps lie on the days 0..MaxDay
MaxDay == 2
\* most records of a generated daily wind frame
MaxWind == 1

(***************************************************************************)
(* Values.                                                                 *)
(***************************************************************************)
\* a missing float (pandas NaN); no reading has this value
NaN == -99999

\* hours of one bin of resample("1D")
HoursPerDay == 24

\* the value of an unbound name / Python None
None == "None"

HourlyColumns == {"temperature_2m", "dew_point_2m", "precipitation", "rain", "snowfall"}

PrecipColumns == <<"precipitation", "rain", "snowfall">>

\* hours of the day at which the generated records lie
HourSamples == {0, HoursPerDay - 1}

TimeSamples == {d * HoursPerDay + h : d \in 0..MaxDay, h \in HourSamples}

\* the readings of one hour the generated records are drawn from
Readings ==
    { [temperature_2m |-> -20, dew_point_2m |-> -40, precipitation |-> 10,
       rain |-> 10, snowfall |-> 0],
      [temperature_2m |-> 50, dew_point_2m |-> 10, precipitation |-> 25,
       rain |-> 20, snowfall |-> 5],
      [temperature_2m |-> NaN, dew_point_2m |-> NaN, precipitation |-> NaN,
       rain |-> NaN, snowfall |-> 0] }

HourlyRow(t, r) ==
    [time |-> t, temperature_2m |-> r.temperature_2m,
     dew_point_2m |-> r.dew_point_2m, precipitation |-> r.precipitation,
     rain |-> r.rain, snowfall |-> r.snowfall]

Range(s) == {s[i] : i \in DOMAIN s}

\* timestamps are distinct within a run; their order is the response's
DistinctTimes(rows) ==
    \A i, j \in DOMAIN rows : i # j => rows[i].time # rows[j].time

\* a float column holds at least one number unless the frame has no rows
FloatColumns(rows) ==
    rows = <<>> \/ \A c \in HourlyColumns : \E i \in DOMAIN rows : rows[i][c] # NaN

HourlyRowSeqs ==
    { rows \in UNION { [1..n -> {HourlyRow(t, r) : t \in TimeSamples, r \in Readings}]
                       : n \in 0..MaxLen } :
        DistinctTimes(rows) /\ FloatColumns(rows) }

\* the frame without column c
DropColumn(df, c) ==
    [columns |-> df.columns \ {c},
     rows |-> [i \in DOMAIN df.rows |-> [df.rows[i] EXCEPT ![c] = NaN]]]

FullFrame(rows) == [columns |-> HourlyColumns, rows |-> rows]

\* hourly frames: every column present, or one required column missing
HourlyFrames ==
    {FullFrame(rows) : rows \in HourlyRowSeqs}
    \cup {DropColumn(FullFrame(rows), c) : rows \in HourlyRowSeqs, c \in HourlyColumns}

(***************************************************************************)
(* pandas resample("1D"): the frame is sorted by its index (stable), the   *)
(* bins are the days from the first to the last timestamp's day, one bin   *)
(* per day, and each bin holds the records of its day.                     *)
(***************************************************************************)
Day(t) == t \div HoursPerDay

RECURSIVE InsertByTime(_, _)
InsertByTime(sorted, r) ==
    IF sorted = <<>> THEN <<r>>
    ELSE IF Head(sorted).time <= r.time
         THEN <<Head(sorted)>> \o InsertByTime(Tail(sorted), r)
         ELSE <<r>> \o sorted

RECURSIVE SortByTime(_)
SortByTime(rows) ==
    IF rows = <<>> THEN <<>>
    ELSE InsertByTime(SortByTime(SubSeq(rows, 1, Len(rows) - 1)), rows[Len(rows)])

\* mutation: the records are binned in the order they arrive
KeepArrivalOrder(rows) == rows

SortIndex(rows) == SortByTime(rows)

OnDay(rows, d) ==
    LET keep(r) == Day(r.time) = d IN SelectSeq(rows, keep)

\* mutation: only the days that have records are emitted
GroupByDayBins(rows) ==
    LET sorted == SortIndex(rows)
        days == {Day(sorted[i].time) : i \in DOMAIN sorted}
        RECURSIVE Build(_)
        Build(ds) ==
            IF ds = {} THEN <<>>
            ELSE LET d == CHOOSE x \in ds : \A y \in ds : x <= y
                 IN <<[date |-> d, group |-> OnDay(sorted, d)]>> \o Build(ds \ {d})
    IN Build(days)

Resample1D(rows) ==
    LET sorted == SortIndex(rows)
    IN IF sorted = <<>> THEN <<>>
       ELSE LET first == Day(sorted[1].time)
                last == Day(sorted[Len(sorted)].time)
            IN [i \in 1..(last - first + 1) |->
                    [date |-> first + i - 1, group |-> OnDay(sorted, first + i - 1)]]

(***************************************************************************)
(* The aggregates of one bin; NaN cells are skipped.                       *)
(***************************************************************************)
Present(group, c) ==
    LET keep(r) == r[c] # NaN IN SelectSeq(group, keep)

RECURSIVE SumCol(_, _)
SumCol(group, c) ==
    IF group = <<>> THEN 0
    ELSE (IF Head(group)[c] = NaN THEN 0 ELSE Head(group)[c]) + SumCol(Tail(group), c)

\* mutation: a NaN cell makes the sum of its day NaN
SumColNaN(group, c) ==
    IF \E i \in DOMAIN group : group[i][c] = NaN THEN NaN ELSE SumCol(group, c)

\* sum(): skipna, min_count = 0: the sum of no numbers is 0
BinSum(group, c) == SumCol(group, c)

\* mutation: the first number of the bin instead of its least
BinFirst(group, c) ==
    LET p == Present(group, c) IN IF p = <<>> THEN NaN ELSE p[1][c]

\* min(): the least number of the bin, NaN for a bin without numbers
BinMin(group, c) ==
    LET p == Present(group, c)
    IN IF p = <<>> THEN NaN
       ELSE CHOOSE v \in {p[i][c] : i \in DOMAIN p} :
                \A i \in DOMAIN p : v <= p[i][c]

\* max(): the greatest number of the bin, NaN for a bin without numbers
BinMax(group, c) ==
    LET p == Present(group, c)
    IN IF p = <<>> THEN NaN
       ELSE CHOOSE v \in {p[i][c] : i \in DOMAIN p} :
                \A i \in DOMAIN p : v >= p[i][c]

\* mean(): sum / count of the bin's numbers, kept as the fraction; 0/0 is NaN
BinMean(group, c) ==
    [sum |-> SumCol(group, c), count |-> Len(Present(group, c))]

(***************************************************************************)
(* The two aggregation functions.  A call gives [exc, ret, df]: the        *)
(* exception it raised (None when it returned), the frame it returned and  *)
(* the caller's frame as the call leaves it.                               *)
(***************************************************************************)
Unset == [set |-> FALSE, rows |-> <<>>]

Returned(rows) == [set |-> TRUE, rows |-> rows]

PrecipRow(bin) ==
    [date |-> bin.date,
     precipitation |-> BinSum(bin.group, "precipitation"),
     rain |-> BinSum(bin.group, "rain"),
     snowfall |-> BinSum(bin.group, "snowfall")]

\* mutation: the column selection is done in place on the caller's frame
aggregate_daily_precip_inplace(df) ==
    IF \E i \in DOMAIN PrecipColumns : PrecipColumns[i] \notin df.columns
    THEN [exc |-> "KeyError", ret |-> Unset, df |-> df]
    ELSE LET bins == Resample1D(df.rows)
         IN [exc |-> None,
             ret |-> Returned([i \in DOMAIN bins |-> PrecipRow(bins[i])]),
             df |-> DropColumn(DropColumn(df, "temperature_2m"), "dew_point_2m")]

\* mutation: a missing column is taken as a column of zeros
aggregate_daily_precip_lenient(df) ==
    LET bins == Resample1D(df.rows)
        total(g, c) == IF c \in df.columns THEN BinSum(g, c) ELSE 0
    IN [exc |-> None,
        ret |-> Returned([i \in DOMAIN bins |->
                   [date |-> bins[i].date,
                    precipitation |-> total(bins[i].group, "precipitation"),
                    rain |-> total(bins[i].group, "rain"),
                    snowfall |-> total(bins[i].group, "snowfall")]]),
        df |-> df]

\* mutation: an empty frame is rejected
aggregate_daily_precip_nonempty(df) ==
    IF \E i \in DOMAIN PrecipColumns : PrecipColumns[i] \notin df.columns
    THEN [exc |-> "KeyError", ret |-> Unset, df |-> df]
    ELSE IF df.rows = <<>>
    THEN [exc |-> "ValueError", ret |-> Unset, df |-> df]
    ELSE LET bins == Resample1D(df.rows)
         IN [exc |-> None,
             ret |-> Returned([i \in DOMAIN bins |-> PrecipRow(bins[i])]),
             df |-> df]

aggregate_daily_precip(df) ==
    IF \E i \in DOMAIN PrecipColumns : PrecipColumns[i] \notin df.columns
    THEN [exc |-> "KeyError", ret |-> Unset, df |-> df]
    ELSE LET bins == Resample1D(df.rows)
         IN [exc |-> None,
             ret |-> Returned([i \in DOMAIN bins |-> PrecipRow(bins[i])]),
             df |-> df]

daily_min_max_temp_and_dew(df) ==
    IF "temperature_2m" \notin df.columns
    THEN [exc |-> "KeyError", ret |-> Unset, df |-> df]
    ELSE IF "dew_point_2m" \notin df.columns
    THEN [exc |-> "KeyError", ret |-> Unset, df |-> df]
    ELSE LET bins == Resample1D(df.rows)
         IN [exc |-> None,
             ret |-> Returned([i \in DOMAIN bins |->
                        [date |-> bins[i].date,
                         tmin |-> BinMin(bins[i].group, "temperature_2m"),
                         tmax |-> BinMax(bins[i].group, "temperature_2m"),
                         dew_mean |-> BinMean(bins[i].group, "dew_point_2m")]]),
             df |-> df]

(***************************************************************************)
(* Plot 3 of main: the two shaded wind bands.  fill_between(x, y1, y2,     *)
(* where) is kept per record as [where, lower, upper].                     *)
(***************************************************************************)
strong_wind_th == 390

storm_th == 500

max_fill == 890

Clip(v, upper) == IF v > upper THEN upper ELSE v

\* mutation: the band starts above its threshold
AtLeastStrict(v, th) == v > th

AtLeast(v, th) == v >= th

Gusts(wd) == [i \in DOMAIN wd |-> wd[i].wind_gusts_10m_max]

FillBetween(lower, upper, where) ==
    [i \in DOMAIN upper |-> [where |-> where[i], lower |-> lower, upper |-> upper[i]]]

\* mutation: the strong-wind band is not cut off at the storm threshold
StrongFillUnclipped(wd) ==
    FillBetween(strong_wind_th,
                Gusts(wd),
                [i \in DOMAIN wd |-> AtLeast(wd[i].wind_gusts_10m_max, strong_wind_th)])

StrongFill(wd) ==
    FillBetween(strong_wind_th,
                [i \in DOMAIN wd |-> Clip(wd[i].wind_gusts_10m_max, storm_th)],
                [i \in DOMAIN wd |-> AtLeast(wd[i].wind_gusts_10m_max, strong_wind_th)])

StormFill(wd) ==
    FillBetween(storm_th,
                [i \in DOMAIN wd |-> Clip(wd[i].wind_gusts_10m_max, max_fill)],
                [i \in DOMAIN wd |-> AtLeast(wd[i].wind_gusts_10m_max, storm_th)])

(***************************************************************************)
(* Inputs of main: the user's selection and the two services' answers.     *)
(***************************************************************************)
PRESET_LOCATIONS ==
    << <<"Fislisbach", "CH">>, <<"Hamburg", "DE">>, <<"Haugesund", "NO">>,
       <<"Bodo", "NO">>, <<"Sortland", "NO">>, <<"Harstad", "NO">>,
       <<"Tromso", "NO">>, <<"Alta", "NO">>, <<"Trondheim", "NO">>,
       <<"Maloy", "NO">> >>

FreeEntry == <<"Freie Eingabe">>

\* options of the sidebar's selectbox
Options == PRESET_LOCATIONS \o <<FreeEntry>>

\* options.index(choice): the first position of the choice
IndexOf(choice) ==
    CHOOSE i \in DOMAIN Options :
        Options[i] = choice /\ \A j \in 1..(i - 1) : Options[j] # choice

\* the selections, and the texts typed into the two text inputs, that are tried
ChoiceSamples == {Options[1], Options[Len(PRESET_LOCATIONS)], FreeEntry}

OrtSamples == {"", "Oslo"}

LandSamples == {"", "NO"}

NoLoc == [name |-> None, lat |-> 0, lon |-> 0, country |-> None, timezone |-> None]

\* answers of the geocoding service for a name: its first result
GeoResults(name) ==
    { [name |-> name, lat |-> 599, lon |-> 107, country |-> c, timezone |-> tz] :
        c \in {None, "Norwegen"}, tz \in {"auto", "Europe/Oslo"} }

NoFrame == [columns |-> {}, rows |-> <<>>]

SampleRow(t, temp, precipitation, rain, snowfall) ==
    [time |-> t, temperature_2m |-> temp, dew_point_2m |-> temp - 20,
     precipitation |-> precipitation, rain |-> rain, snowfall |-> snowfall]

\* hourly frames the forecast service answers with in the runs of main
SampleHourlyFrames ==
    LET oneDay == <<SampleRow(0, -20, 10, 10, 0), SampleRow(6, 50, 0, 0, 0),
                    SampleRow(12, 80, 0, 0, 0), SampleRow(18, 30, 25, 20, 5)>>
        gap == <<SampleRow(23, 10, 0, 0, 0), SampleRow(2 * HoursPerDay, 30, NaN, 5, 0)>>
        unsorted == <<SampleRow(HoursPerDay, 40, 5, 5, 0), SampleRow(1, 20, 0, 0, 0)>>
    IN { FullFrame(<<>>), FullFrame(oneDay), FullFrame(gap), FullFrame(unsorted),
         DropColumn(FullFrame(oneDay), "dew_point_2m"),
         DropColumn(FullFrame(gap), "snowfall") }

\* daily gusts the generated wind frames are drawn from
GustSamples == {-10, 389, 390, 499, 500, 950}

WindFrames ==
    UNION { [1..n -> {[wind_gusts_10m_max |-> g] : g \in GustSamples}] : n \in 1..MaxWind }

(***************************************************************************)
(* main: one run of the script.                                            *)
(***************************************************************************)
Init ==
    /\ pc = "select"
    /\ ort = None
    /\ land = None
    /\ loc = NoLoc
    /\ df_hourly = NoFrame
    /\ df_daily_wind = <<>>
    /\ daily_temp_dew = Unset
    /\ daily_precip = Unset
    /\ strong_fill = <<>>
    /\ storm_fill = <<>>
    /\ raised = {}
    /\ shown = <<>>
    /\ fetched = NoFrame

\* streamlit_select_location()
SelectLocation ==
    /\ pc = "select"
    /\ \E choice \in ChoiceSamples :
         IF choice # FreeEntry
         THEN /\ ort' = PRESET_LOCATIONS[IndexOf(choice)][1]
              /\ land' = PRESET_LOCATIONS[IndexOf(choice)][2]
              /\ pc' = "geocode"
         ELSE \E text \in OrtSamples, code \in LandSamples :
                IF text = ""
                THEN /\ pc' = "stopped"
                     /\ UNCHANGED <<ort, land>>
                ELSE /\ ort' = text
                     /\ land' = (IF code = "" THEN None ELSE code)
                     /\ pc' = "geocode"
    /\ UNCHANGED <<loc, df_hourly, df_daily_wind, daily_temp_dew, daily_precip,
                   strong_fill, storm_fill, raised, shown, fetched>>

\* mutation: the run is not stopped after the geocoding error is shown
GeocodeNoStop ==
    /\ pc = "geocode"
    /\ \/ \E e \in {"HTTPError", "ValueError"} :
            /\ raised' = raised \cup {<<"geocode_location", e>>}
            /\ shown' = Append(shown, "Fehler bei Geocoding")
            /\ pc' = "fetch"
            /\ UNCHANGED loc
       \/ \E res \in GeoResults(ort) :
            /\ loc' = res
            /\ shown' = Append(shown, "Verwendeter Standort")
            /\ pc' = "fetch"
            /\ UNCHANGED raised
    /\ UNCHANGED <<ort, land, df_hourly, df_daily_wind, daily_temp_dew, daily_precip,
                   strong_fill, storm_fill, fetched>>

\* loc = geocode_location(ort, land), its failure shown and the run stopped
Geocode ==
    /\ pc = "geocode"
    /\ \/ \E e \in {"HTTPError", "ValueError"} :
            /\ raised' = raised \cup {<<"geocode_location", e>>}
            /\ shown' = Append(shown, "Fehler bei Geocoding")
            /\ pc' = "stopped"
            /\ UNCHANGED loc
       \/ \E res \in GeoResults(ort) :
            /\ loc' = res
            /\ shown' = Append(shown, "Verwendeter Standort")
            /\ pc' = "fetch"
            /\ UNCHANGED raised
    /\ UNCHANGED <<ort, land, df_hourly, df_daily_wind, daily_temp_dew, daily_precip,
                   strong_fill, storm_fill, fetched>>

\* df_hourly, df_daily_wind = fetch_weather(...), its failure shown and the run stopped
FetchWeather ==
    /\ pc = "fetch"
    /\ \/ \E e \in {"HTTPError", "KeyError"} :
            /\ raised' = raised \cup {<<"fetch_weather", e>>}
            /\ shown' = Append(shown, "Fehler beim Abrufen der Wetterdaten")
            /\ pc' = "stopped"
            /\ UNCHANGED <<df_hourly, df_daily_wind, fetched>>
       \/ \E hourly \in SampleHourlyFrames, daily \in WindFrames :
            /\ df_hourly' = hourly
            /\ df_daily_wind' = daily
            /\ fetched' = hourly
            /\ pc' = "agg_temp_dew"
            /\ UNCHANGED <<raised, shown>>
    /\ UNCHANGED <<ort, land, loc, daily_temp_dew, daily_precip, strong_fill, storm_fill>>

\* daily_temp_dew = daily_min_max_temp_and_dew(df_hourly); an exception ends the run
AggTempDew ==
    /\ pc = "agg_temp_dew"
    /\ LET r == daily_min_max_temp_and_dew(df_hourly)
       IN /\ df_hourly' = r.df
          /\ IF r.exc # None
             THEN /\ raised' = raised \cup {<<"daily_min_max_temp_and_dew", r.exc>>}
                  /\ pc' = "crashed"
                  /\ UNCHANGED daily_temp_dew
             ELSE /\ daily_temp_dew' = r.ret
                  /\ pc' = "agg_precip"
                  /\ UNCHANGED raised
    /\ UNCHANGED <<ort, land, loc, df_daily_wind, daily_precip, strong_fill, storm_fill,
                   shown, fetched>>

\* daily_precip = aggregate_daily_precip(df_hourly); an exception ends the run
AggPrecip ==
    /\ pc = "agg_precip"
    /\ LET r == aggregate_daily_precip(df_hourly)
       IN /\ df_hourly' = r.df
          /\ IF r.exc # None
             THEN /\ raised' = raised \cup {<<"aggregate_daily_precip", r.exc>>}
                  /\ pc' = "crashed"
                  /\ UNCHANGED daily_precip
             ELSE /\ daily_precip' = r.ret
                  /\ pc' = "plot"
                  /\ UNCHANGED raised
    /\ UNCHANGED <<ort, land, loc, df_daily_wind, daily_temp_dew, strong_fill, storm_fill,
                   shown, fetched>>

\* the three plots; the third one shades the two wind bands
Plot ==
    /\ pc = "plot"
    /\ strong_fill' = StrongFill(df_daily_wind)
    /\ storm_fill' = StormFill(df_daily_wind)
    /\ pc' = "done"
    /\ UNCHANGED <<ort, land, loc, df_hourly, df_daily_wind, daily_temp_dew, daily_precip,
                   raised, shown, fetched>>

Next == SelectLocation \/ Geocode \/ FetchWeather \/ AggTempDew \/ AggPrecip \/ Plot

Spec == Init /\ [][Next]_vars

(***************************************************************************)
(* The aggregation functions called on their own: a caller holds an hourly *)
(* frame and calls each function once, in either order.                    *)
(***************************************************************************)
InitCaller ==
    /\ pc = "caller"
    /\ ort = None
    /\ land = None
    /\ loc = NoLoc
    /\ df_hourly \in HourlyFrames
    /\ df_daily_wind = <<>>
    /\ daily_temp_dew = Unset
    /\ daily_precip = Unset
    /\ strong_fill = <<>>
    /\ storm_fill = <<>>
    /\ raised = {}
    /\ shown = <<>>
    /\ fetched = df_hourly

\* fn raised an exception
Failed(fn) == \E x \in raised : x[1] = fn

CallTempDew ==
    /\ pc = "caller"
    /\ ~daily_temp_dew.set
    /\ ~Failed("daily_min_max_temp_and_dew")
    /\ LET r == daily_min_max_temp_and_dew(df_hourly)
       IN /\ df_hourly' = r.df
          /\ daily_temp_dew' = r.ret
          /\ raised' = (IF r.exc # None
                         THEN raised \cup {<<"daily_min_max_temp_and_dew", r.exc>>}
                         ELSE raised)
    /\ UNCHANGED <<pc, ort, land, loc, df_daily_wind, daily_precip, strong_fill,
                   storm_fill, shown, fetched>>

CallPrecip ==
    /\ pc = "caller"
    /\ ~daily_precip.set
    /\ ~Failed("aggregate_daily_precip")
    /\ LET r == aggregate_daily_precip(df_hourly)
       IN /\ df_hourly' = r.df
          /\ daily_precip' = r.ret
          /\ raised' = (IF r.exc # None
                         THEN raised \cup {<<"aggregate_daily_precip", r.exc>>}
                         ELSE raised)
    /\ UNCHANGED <<pc, ort, land, loc, df_daily_wind, daily_temp_dew, strong_fill,
                   storm_fill, shown, fetched>>

NextCaller == CallTempDew \/ CallPrecip

SpecAgg == InitCaller /\ [][NextCaller]_vars

(***************************************************************************)
(* Vocabulary of the properties, stated on the hourly frame as it was      *)
(* handed over (fetched), without reference to the resampling.             *)
(***************************************************************************)
TempDewFn == "daily_min_max_temp_and_dew"

PrecipFn == "aggregate_daily_precip"

TempDewColumns == {"temperature_2m", "dew_point_2m"}

\* the call of the function has been made: it returned or it raised
TempDewCalled == daily_temp_dew.set \/ Failed(TempDewFn)

PrecipCalled == daily_precip.set \/ Failed(PrecipFn)

\* the calendar days that have at least one hourly record
DaysWithRecords == {Day(fetched.rows[i].time) : i \in DOMAIN fetched.rows}

FirstDay == CHOOSE d \in DaysWithRecords : \A e \in DaysWithRecords : d <= e

LastDay == CHOOSE d \in DaysWithRecords : \A e \in DaysWithRecords : d >= e

\* the records of calendar day d, as positions of the frame
RecordsOf(d) == {i \in DOMAIN fetched.rows : Day(fetched.rows[i].time) = d}

\* the numbers of column c on day d
NumbersOf(d, c) == {fetched.rows[i][c] : i \in {j \in RecordsOf(d) : fetched.rows[j][c] # NaN}}

RECURSIVE TotalOf(_, _)
TotalOf(idx, c) ==
    IF idx = {} THEN 0
    ELSE LET i == CHOOSE j \in idx : TRUE
             v == fetched.rows[i][c]
         IN (IF v = NaN THEN 0 ELSE v) + TotalOf(idx \ {i}, c)

Dates(out) == [i \in DOMAIN out.rows |-> out.rows[i].date]

Ascending(ds) == \A i, j \in DOMAIN ds : i < j => ds[i] < ds[j]

\* the output rows are exactly the days with records, once each, in ascending order
OnlyDaysWithRecords(out) ==
    /\ Ascending(Dates(out))
    /\ Range(Dates(out)) = DaysWithRecords

\* the output rows are the days FirstDay..LastDay, once each, in ascending order
EveryDayFirstToLast(out) ==
    /\ Len(out.rows) = LastDay - FirstDay + 1
    /\ \A i \in DOMAIN out.rows : out.rows[i].date = FirstDay + i - 1

GapDayExists == \E d \in FirstDay..LastDay : d \notin DaysWithRecords

C3_SumConservation ==
    daily_precip.set =>
        \A i \in DOMAIN daily_precip.rows :
            LET row == daily_precip.rows[i]
            IN /\ row.precipitation = TotalOf(RecordsOf(row.date), "precipitation")
               /\ row.rain = TotalOf(RecordsOf(row.date), "rain")
               /\ row.snowfall = TotalOf(RecordsOf(row.date), "snowfall")

\* a partial day of two records, one of them without a precipitation value
C3_Witness ==
    /\ daily_precip.set
    /\ \E i \in DOMAIN daily_precip.rows :
         LET d == daily_precip.rows[i].date
         IN /\ Cardinality(RecordsOf(d)) = 2
            /\ \E j \in RecordsOf(d) : fetched.rows[j].precipitation = NaN
            /\ daily_precip.rows[i].precipitation > 0
            /\ daily_precip.rows[i].snowfall > 0

(***************************************************************************)
(* C4                                                                      *)
(***************************************************************************)
\* tmin and tmax of the row are the least and the greatest hourly temperature of its day
MinMaxOfDay(row) ==
    /\ row.tmin \in NumbersOf(row.date, "temperature_2m")
    /\ row.tmax \in NumbersOf(row.date, "temperature_2m")
    /\ \A v \in NumbersOf(row.date, "temperature_2m") : row.tmin <= v /\ v <= row.tmax
    /\ row.tmin <= row.tmax

\* C4 as stated: on every emitted day tmin is the minimum and tmax the maximum
\* of that day's hourly temperatures, so tmin <= tmax and both lie within the
\* range of the day's temperatures
C4_MinMaxOnEveryDay ==
    daily_temp_dew.set =>
        \A i \in DOMAIN daily_temp_dew.rows :
            LET row == daily_temp_dew.rows[i]
            IN row.tmin # NaN /\ row.tmax # NaN /\ MinMaxOfDay(row)

\* C4 amended: on every emitted day that has at least one hourly temperature
\* value, tmin is the minimum and tmax the maximum of the day's values (partial
\* days included); on an emitted day without any temperature value (a day
\* without records, or with null temperatures only) tmin and tmax are both NaN
C4_MinMaxOnDaysWithValues ==
    daily_temp_dew.set =>
        \A i \in DOMAIN daily_temp_dew.rows :
            LET row == daily_temp_dew.rows[i]
            IN IF NumbersOf(row.date, "temperature_2m") # {}
               THEN row.tmin # NaN /\ row.tmax # NaN /\ MinMaxOfDay(row)
               ELSE row.tmin = NaN /\ row.tmax = NaN

\* a partial day whose two records differ, the later one the colder
C4_Witness ==
    /\ daily_temp_dew.set
    /\ \E i \in DOMAIN daily_temp_dew.rows :
         LET row == daily_temp_dew.rows[i]
         IN /\ row.tmin # NaN
            /\ row.tmin < row.tmax
            /\ \E j, k \in RecordsOf(row.date) :
                 /\ fetched.rows[j].time < fetched.rows[k].time
                 /\ fetched.rows[j].temperature_2m = row.tmax
                 /\ fetched.rows[k].temperature_2m = row.tmin

(***************************************************************************)
(* C5, C6: the wind bands, read off the two fills once main has plotted.   *)
(***************************************************************************)
Plotted == pc = "done"

GustOf(i) == df_daily_wind[i].wind_gusts_10m_max

StrongShaded(i) == strong_fill[i].where

StormShaded(i) == storm_fill[i].where

Least(a, b) == IF a <= b THEN a ELSE b

\* C5: a gust g is NORMAL (no shading) iff g < 39.0, STRONG (strong-wind
\* shading only) iff 39.0 <= g < 50.0 and STORM (storm shading) iff g >= 50.0;
\* a negative gust is NORMAL
C5_MonotonicBanding ==
    Plotted =>
        /\ DOMAIN strong_fill = DOMAIN df_daily_wind
        /\ DOMAIN storm_fill = DOMAIN df_daily_wind
        /\ \A i \in DOMAIN df_daily_wind :
             /\ (~StrongShaded(i) /\ ~StormShaded(i)) <=> GustOf(i) < 390
             /\ (StrongShaded(i) /\ ~StormShaded(i)) <=> (390 <= GustOf(i) /\ GustOf(i) < 500)
             /\ StormShaded(i) <=> GustOf(i) >= 500
             /\ GustOf(i) < 0 => (~StrongShaded(i) /\ ~StormShaded(i))

\* a gust of exactly 39.0 is shaded as strong wind and not as storm
C5_Witness ==
    /\ Plotted
    /\ \E i \in DOMAIN df_daily_wind :
         GustOf(i) = 390 /\ StrongShaded(i) /\ ~StormShaded(i)

\* C6: the strong-wind fill is present iff g >= 39.0 and its upper edge is
\* min(g, 50.0); the storm fill is present iff g >= 50.0 and its upper edge is
\* min(g, 89.0)
C6_FillClipping ==
    Plotted =>
        \A i \in DOMAIN df_daily_wind :
            /\ i \in DOMAIN strong_fill /\ i \in DOMAIN storm_fill
            /\ StrongShaded(i) <=> GustOf(i) >= 390
            /\ StrongShaded(i) =>
                 (strong_fill[i].lower = 390 /\ strong_fill[i].upper = Least(GustOf(i), 500))
            /\ StormShaded(i) <=> GustOf(i) >= 500
            /\ StormShaded(i) =>
                 (storm_fill[i].lower = 500 /\ storm_fill[i].upper = Least(GustOf(i), 890))

\* a gust above 89.0: both fills present, cut off at 50.0 and at 89.0
C6_Witness ==
    /\ Plotted
    /\ \E i \in DOMAIN df_daily_wind :
         /\ GustOf(i) > 890
         /\ StrongShaded(i) /\ strong_fill[i].upper = 500
         /\ StormShaded(i) /\ storm_fill[i].upper = 890

(***************************************************************************)
(* C7                                                                      *)
(***************************************************************************)
\* the orders in which the records of the frame can arrive
Orders(rows) ==
    { [i \in DOMAIN rows |-> rows[p[i]]] :
        p \in {q \in [DOMAIN rows -> DOMAIN rows] :
                 \A i, j \in DOMAIN rows : i # j => q[i] # q[j]} }

\* C7: the daily rows a call returned are the rows both aggregations return
\* for every other order of the same hourly records, the time-sorted order
\* among them
C7_OrderIndependent ==
    \A rows \in Orders(fetched.rows) :
        /\ daily_temp_dew.set =>
             daily_min_max_temp_and_dew([fetched EXCEPT !.rows = rows]).ret = daily_temp_dew
        /\ daily_precip.set =>
             aggregate_daily_precip([fetched EXCEPT !.rows = rows]).ret = daily_precip

\* both calls returned on records of two days that arrived latest first
C7_Witness ==
    /\ daily_temp_dew.set
    /\ daily_precip.set
    /\ Len(fetched.rows) >= 2
    /\ fetched.rows[1].time > fetched.rows[2].time
    /\ Day(fetched.rows[1].time) > Day(fetched.rows[2].time)
    /\ Len(daily_precip.rows) >= 2
    /\ daily_precip.rows[1].date = Day(fetched.rows[2].time)

(***************************************************************************)
(* C8                                                                      *)
(***************************************************************************)
TempDewColumnMissing == ~(TempDewColumns \subseteq fetched.columns)

PrecipColumnMissing == ~(Range(PrecipColumns) \subseteq fetched.columns)

\* C8 as stated: a call on an hourly input that lacks a column the call needs
\* fails with MalformedRecordError and returns no daily rows
C8_MalformedRecordError ==
    /\ (TempDewColumnMissing /\ TempDewCalled) =>
           (daily_temp_dew = Unset /\ <<TempDewFn, "MalformedRecordError">> \in raised)
    /\ (PrecipColumnMissing /\ PrecipCalled) =>
           (daily_precip = Unset /\ <<PrecipFn, "MalformedRecordError">> \in raised)

\* C8 amended: a call on an hourly input that lacks a column the call needs
\* fails with KeyError and returns no daily rows at all
C8_MissingColumnKeyError ==
    /\ (TempDewColumnMissing /\ TempDewCalled) =>
           (daily_temp_dew = Unset /\ <<TempDewFn, "KeyError">> \in raised)
    /\ (PrecipColumnMissing /\ PrecipCalled) =>
           (daily_precip = Unset /\ <<PrecipFn, "KeyError">> \in raised)

\* the rain column is missing: the precipitation call failed, the other returned rows
C8_Witness ==
    /\ "rain" \notin fetched.columns
    /\ fetched.rows # <<>>
    /\ <<PrecipFn, "KeyError">> \in raised
    /\ daily_precip = Unset
    /\ daily_temp_dew.set

GeocodeFailed == \E x \in raised : x[1] = "geocode_location"

FetchFailed == \E x \in raised : x[1] = "fetch_weather"

GeocodeReturned == loc # NoLoc

FetchReturned == fetched # NoFrame /\ df_daily_wind # <<>>

AggregationRan == daily_temp_dew.set \/ daily_precip.set \/ Failed(TempDewFn) \/ Failed(PrecipFn)

PlotRan == strong_fill # <<>> \/ storm_fill # <<>>

\* C10: the stages of main run in the order selection, geocoding, fetch,
\* aggregation, plotting; the fetch is reached only once geocoding returned,
\* aggregation and plotting only once the fetch returned; when geocoding or
\* the fetch raises, its error message is shown, the run is stopped and no
\* later stage has run
C10_StagesInOrder ==
    /\ pc \in {"select", "geocode"} => (~GeocodeReturned /\ ~FetchReturned /\ ~FetchFailed)
    /\ pc = "select" => (ort = None /\ ~GeocodeFailed)
    /\ (pc = "fetch" \/ FetchFailed \/ FetchReturned) => (GeocodeReturned /\ ~GeocodeFailed)
    /\ pc = "fetch" => (~FetchReturned /\ ~FetchFailed)
    /\ (pc \in {"agg_temp_dew", "agg_precip", "plot", "done", "crashed"} \/ AggregationRan \/ PlotRan)
           => (FetchReturned /\ ~FetchFailed)
    /\ pc = "agg_temp_dew" => ~AggregationRan
    /\ daily_precip.set => daily_temp_dew.set
    /\ PlotRan => (daily_temp_dew.set /\ daily_precip.set /\ pc = "done")
    /\ pc \in {"plot", "done"} => (daily_temp_dew.set /\ daily_precip.set)
    /\ GeocodeFailed =>
           /\ pc = "stopped"
           /\ shown = <<"Fehler bei Geocoding">>
           /\ ~GeocodeReturned /\ ~FetchReturned /\ ~FetchFailed
           /\ ~AggregationRan /\ ~PlotRan
    /\ FetchFailed =>
           /\ pc = "stopped"
           /\ shown = <<"Verwendeter Standort", "Fehler beim Abrufen der Wetterdaten">>
           /\ ~FetchReturned /\ ~AggregationRan /\ ~PlotRan

\* the fetch raised after geocoding had returned: message shown, run stopped
C10_Witness ==
    /\ pc = "stopped"
    /\ FetchFailed
    /\ GeocodeReturned
    /\ shown = <<"Verwendeter Standort", "Fehler beim Abrufen der Wetterdaten">>
    /\ ~AggregationRan

====
